---- MODULE Spec2Model ----
(***************************************************************************)
(* A model of the dependency walker, version resolver and concurrent       *)
(* fetcher of mops-cli (src/src/toml.rs, src/src/github.rs).               *)
(*                                                                         *)
(* Strings are TLA+ strings; format!, strip_prefix, split, starts_with and *)
(* the byte-wise ordering of String keys in a BTreeMap are computed on     *)
(* their characters.                                                       *)
(***************************************************************************)
EXTENDS Integers, Sequences, FiniteSets, TLC

\* let x = v in F(x): v is evaluated once, then F on its value.
Let(v, F(_)) == CHOOSE y \in {F(x) : x \in {v}} : TRUE

\* ------------------------------------------------------------------------
\* Strings

CharAt(s, i) == SubSeq(s, i, i)

\* Runs of consecutive ASCII characters; the characters that occur in package
\* names, versions, URLs and paths all lie in one of them.
AsciiRun(first, chars) ==
  [c \in {CharAt(chars, i) : i \in 1..Len(chars)} |->
     first - 1 + (CHOOSE i \in 1..Len(chars) : CharAt(chars, i) = c)]

\* The byte value of a one-character string.
Ord == AsciiRun(35, "#") @@ AsciiRun(43, "+,-./0123456789:")
       @@ AsciiRun(64, "@ABCDEFGHIJKLMNOPQRSTUVWXYZ") @@ AsciiRun(95, "_")
       @@ AsciiRun(97, "abcdefghijklmnopqrstuvwxyz")

Min(a, b) == IF a < b THEN a ELSE b

\* The index of the first position where s and t differ, or 0 when one is a
\* prefix of the other.
FirstDiff(s, t) ==
  Let({i \in 1..Min(Len(s), Len(t)) : CharAt(s, i) # CharAt(t, i)},
      LAMBDA D : IF D = {} THEN 0 ELSE CHOOSE i \in D : \A j \in D : i <= j)

\* s < t in the order of Rust's str (lexicographic on bytes).
StrLess(s, t) ==
  Let(FirstDiff(s, t),
      LAMBDA d : IF d = 0 THEN Len(s) < Len(t)
                 ELSE Ord[CharAt(s, d)] < Ord[CharAt(t, d)])

starts_with(s, p) == Len(s) >= Len(p) /\ SubSeq(s, 1, Len(p)) = p

ends_with(s, p) ==
  Len(s) >= Len(p) /\ SubSeq(s, Len(s) - Len(p) + 1, Len(s)) = p

\* s without the prefix p (the caller has tested starts_with).
strip_prefix(s, p) == SubSeq(s, Len(p) + 1, Len(s))

strip_suffix(s, p) == SubSeq(s, 1, Len(s) - Len(p))

\* The position of the first occurrence of the character c in s, or 0.
Find(s, c) ==
  Let({i \in 1..Len(s) : CharAt(s, i) = c},
      LAMBDA P : IF P = {} THEN 0 ELSE CHOOSE i \in P : \A j \in P : i <= j)

\* str::split(sep) for a one-character separator: the pieces between the
\* separators, empty pieces included.
RECURSIVE split(_, _)
split(s, sep) ==
  Let(Find(s, sep),
      LAMBDA p : IF p = 0 THEN <<s>>
                 ELSE <<SubSeq(s, 1, p - 1)>>
                        \o Let(SubSeq(s, p + 1, Len(s)), LAMBDA rest : split(rest, sep)))

Digits == {"0", "1", "2", "3", "4", "5", "6", "7", "8", "9"}

AllDigits(s) == Len(s) > 0 /\ \A i \in 1..Len(s) : CharAt(s, i) \in Digits

RECURSIVE ToNat(_)
ToNat(s) ==
  IF Len(s) = 0 THEN 0
  ELSE 10 * ToNat(SubSeq(s, 1, Len(s) - 1)) + (Ord[CharAt(s, Len(s))] - 48)

\* The elements of a sequence.
Range(f) == {f[i] : i \in DOMAIN f}

\* Option<T>: None is the empty tuple, Some(x) the one-element tuple.
None == <<>>
Some(x) == <<x>>

\* ------------------------------------------------------------------------
\* Semantic versions (semver::Version, used by parse_version)

Letters == {CharAt("abcdefghijklmnopqrstuvwxyzABCDEFGHIJKLMNOPQRSTUVWXYZ", i) : i \in 1..52}

\* A numeric identifier: digits without a leading zero.
NumericOk(s) == AllDigits(s) /\ (Len(s) = 1 \/ CharAt(s, 1) # "0")

IdentChars(s) ==
  Len(s) > 0 /\ \A i \in 1..Len(s) : CharAt(s, i) \in Digits \cup Letters \cup {"-"}

\* A pre-release identifier: alphanumerics and hyphens, and when all digits
\* no leading zero.
PreIdentOk(s) == IdentChars(s) /\ (AllDigits(s) => NumericOk(s))

\* ver.parse::<Version>().ok(): MAJOR.MINOR.PATCH[-PRE][+BUILD], whose core
\* is core, whose pre-release identifiers are pre and whose build
\* identifiers are build.
version_of(core, pre, build) ==
  IF /\ Len(core) = 3
     /\ \A i \in 1..3 : NumericOk(core[i])
     /\ \A i \in 1..Len(pre) : PreIdentOk(pre[i])
     /\ \A i \in 1..Len(build) : IdentChars(build[i])
  THEN Some([major |-> ToNat(core[1]), minor |-> ToNat(core[2]),
             patch |-> ToNat(core[3]), pre |-> pre, build |-> build])
  ELSE None

\* The part before the first c of s, or all of s when c does not occur.
Before(s, c) == Let(Find(s, c), LAMBDA p : IF p = 0 THEN s ELSE SubSeq(s, 1, p - 1))

\* The identifiers after the first c of s, none when c does not occur.
IdentsAfter(s, c) ==
  Let(Find(s, c),
      LAMBDA p : IF p = 0 THEN <<>> ELSE split(SubSeq(s, p + 1, Len(s)), "."))

parse_version(ver) ==
  Let(Before(ver, "+"),
      LAMBDA main :
        Let(<<split(Before(main, "-"), "."), IdentsAfter(main, "-"),
              IdentsAfter(ver, "+")>>,
            LAMBDA t : version_of(t[1], t[2], t[3])))

\* Precedence of two identifiers: numeric ones compare as numbers and are
\* lower than alphanumeric ones, which compare in ASCII order.
IdentLess(x, y) ==
  IF AllDigits(x) /\ AllDigits(y) THEN ToNat(x) < ToNat(y)
  ELSE IF AllDigits(x) THEN TRUE
  ELSE IF AllDigits(y) THEN FALSE
  ELSE StrLess(x, y)

\* Identifier lists: the first difference decides, else the shorter is lower.
IdentsLess(p, q) ==
  LET D == {i \in 1..Min(Len(p), Len(q)) : p[i] # q[i]}
  IN  IF D = {} THEN Len(p) < Len(q)
      ELSE IdentLess(p[CHOOSE i \in D : \A j \in D : i <= j],
                     q[CHOOSE i \in D : \A j \in D : i <= j])

\* A version without pre-release is higher than the same version with one.
PreLess(p, q) ==
  IF p = <<>> THEN FALSE ELSE IF q = <<>> THEN TRUE ELSE IdentsLess(p, q)

\* ve < vp on semver::Version (a total order: major, minor, patch,
\* pre-release, then build metadata).
VersionLess(a, b) ==
  IF a.major # b.major THEN a.major < b.major
  ELSE IF a.minor # b.minor THEN a.minor < b.minor
  ELSE IF a.patch # b.patch THEN a.patch < b.patch
  ELSE IF a.pre # b.pre THEN PreLess(a.pre, b.pre)
  ELSE IdentsLess(a.build, b.build)

\* ------------------------------------------------------------------------
\* Package and its identity

\* RepoInfo { repo, tag, commit } and the base_dir toml.rs reads from it.
RepoInfo(repo, tag, commit) ==
  [repo |-> repo, tag |-> tag, commit |-> commit, base_dir |-> "src"]

Package(name, version, source, base_dir, repo, dependencies) ==
  [name |-> name, version |-> version, source |-> source,
   base_dir |-> base_dir, repo |-> repo, dependencies |-> dependencies]

\* publication.storage.to_string(): the textual form of a storage canister's
\* principal.
StorageId == "aaaaa-aa"

\* Package::get_type: the source field is the discriminator.
get_type(p) ==
  IF starts_with(p.source, "file://")
  THEN [kind |-> "Local", local |-> strip_prefix(p.source, "file://")]
  ELSE IF p.source = "github"
  THEN [kind |-> "Repo", local |-> ""]
  ELSE [kind |-> "Mops", local |-> ""]

\* format!("{}-{}", a, b)
Dash(a, b) == a \o "-" \o b

\* A variant of get_key: the Repo key is built from the tag, not the commit.
get_key_by_tag(p) ==
  LET t == get_type(p)
  IN  IF t.kind = "Mops" THEN Dash(p.name, p.version[1])
      ELSE IF t.kind = "Repo" THEN Dash(p.name, p.repo[1].tag)
      ELSE Dash(p.name, t.local)

\* Package::get_key, the DedupKey.
get_key(p) ==
  LET t == get_type(p)
  IN  IF t.kind = "Mops" THEN Dash(p.name, p.version[1])
      ELSE IF t.kind = "Repo" THEN Dash(p.name, p.repo[1].commit)
      ELSE Dash(p.name, t.local)

\* str::replace for a one-character pattern.
replace(s, from, to) ==
  LET parts == split(s, from)
      RECURSIVE Join(_)
      Join(i) == IF i = Len(parts) THEN parts[i] ELSE parts[i] \o to \o Join(i + 1)
  IN  Join(1)

\* Package::get_path, the cache subpath.
get_path(p) ==
  LET t == get_type(p)
  IN  IF t.kind = "Mops" THEN "mops/" \o Dash(p.name, p.version[1])
      ELSE IF t.kind = "Repo"
      THEN "git/" \o replace(p.repo[1].repo, "/", "-") \o "/"
             \o SubSeq(p.repo[1].commit, 1, 8)
      ELSE t.local

\* RepoInfo::get_done_file: the marker the repository fetcher leaves.
repo_get_done_file(repo) == "DONE"

\* A variant of get_done_file: the name for a registry package is not the
\* one download_mops_package writes.
get_done_file_lower(p) ==
  LET t == get_type(p)
  IN  IF t.kind = "Mops" THEN "done"
      ELSE IF t.kind = "Repo" THEN repo_get_done_file(p.repo[1])
      ELSE ""

\* Package::get_done_file, the completion sentinel inside get_path.
get_done_file(p) ==
  LET t == get_type(p)
  IN  IF t.kind = "Mops" THEN "DONE"
      ELSE IF t.kind = "Repo" THEN repo_get_done_file(p.repo[1])
      ELSE ""

\* ------------------------------------------------------------------------
\* BTreeMap<String, Package>: a function from its keys to its values

EmptyMap == [k \in {} |-> None]

contains_key(m, k) == k \in DOMAIN m

\* BTreeMap::insert (the old value, if any, is replaced).
insert(m, k, v) == [x \in DOMAIN m \cup {k} |-> IF x = k THEN v ELSE m[x]]

\* The strings of S in ascending order.
RECURSIVE Sorted(_)
Sorted(S) ==
  IF S = {} THEN <<>>
  ELSE Let(CHOOSE x \in S : \A y \in S : x = y \/ StrLess(x, y),
           LAMBDA k : <<k>> \o Let(S \ {k}, LAMBDA T : Sorted(T)))

\* A variant of into_values: the values in descending order of their keys.
into_values_rev(m) ==
  Let(Sorted(DOMAIN m), LAMBDA ks : [i \in 1..Len(ks) |-> m[ks[Len(ks) + 1 - i]]])

\* BTreeMap::into_values: the values in ascending order of their keys.
into_values(m) ==
  Let(Sorted(DOMAIN m), LAMBDA ks : [i \in 1..Len(ks) |-> m[ks[i]]])

\* pkgs.into_iter().map(|p| (p.get_key(), p)).collect(): later records
\* replace earlier ones of the same key.
RECURSIVE collect(_, _)
collect(m, pkgs) ==
  IF pkgs = <<>> THEN m
  ELSE Let(insert(m, get_key(Head(pkgs)), Head(pkgs)),
           LAMBDA n : collect(n, Tail(pkgs)))

\* ------------------------------------------------------------------------
\* resolve_versions

\* The result of resolve_versions: Ok(pkgs), or the version-conflict error
\* whose message serializes the two records e and p.
Ok(pkgs) == [ok |-> TRUE, pkgs |-> pkgs, e |-> None, p |-> None]
Conflict(e, p) == [ok |-> FALSE, pkgs |-> <<>>, e |-> Some(e), p |-> Some(p)]

\* A variant of version_conflict: two records of one name always conflict.
version_conflict_always(e, pkg) == TRUE

\* The two (None, _) | (_, None) arms: a version is missing or does not parse.
version_conflict(e, pkg) ==
  \/ e.version = None
  \/ pkg.version = None
  \/ parse_version(e.version[1]) = None
  \/ parse_version(pkg.version[1]) = None

\* A variant of replaces: the record met last always replaces the kept one.
replaces_always(e, pkg) == TRUE

\* if ve < vp: the record pkg replaces the kept record e.
replaces(e, pkg) ==
  Let(<<parse_version(e.version[1])[1], parse_version(pkg.version[1])[1]>>,
      LAMBDA v : VersionLess(v[1], v[2]))

\* A variant of resolve_step: the kept record is looked up by DedupKey, not
\* by name, so that no earlier record is ever found.
resolve_step_by_key(res, pkg) ==
  [res |-> insert(res, pkg.name, pkg), err |-> None]

\* One iteration of the loop of resolve_versions over the record pkg: the
\* new res, and the error returned if there is one.
resolve_step(res, pkg) ==
  IF contains_key(res, pkg.name)
  THEN LET e == res[pkg.name]
       IN  IF version_conflict(e, pkg)
           THEN [res |-> res, err |-> Some(Conflict(e, pkg))]
           ELSE IF replaces(e, pkg)
           THEN [res |-> insert(res, pkg.name, pkg), err |-> None]
           ELSE [res |-> res, err |-> None]
  ELSE [res |-> insert(res, pkg.name, pkg), err |-> None]

RECURSIVE resolve_loop(_, _)
resolve_loop(res, vals) ==
  IF vals = <<>> THEN Ok(into_values(res))
  ELSE Let(resolve_step(res, Head(vals)),
           LAMBDA r : IF r.err # None THEN r.err[1]
                      ELSE resolve_loop(r.res, Tail(vals)))

resolve_versions(m) ==
  Let(into_values(m), LAMBDA vals : resolve_loop(EmptyMap, vals))

\* ------------------------------------------------------------------------
\* parse_github_url and the host API it consults

\* Result<T>: Ok carries a value, Err the kind of the error.
OkOf(v) == [ok |-> TRUE, val |-> Some(v), err |-> ""]
ErrOf(kind) == [ok |-> FALSE, val |-> None, err |-> kind]

\* The object id of the commit the refs of o/lib point at.
Sha == "907a4e7363aac6c6a4e114ebc73e3d3f21e138af"

\* GET /repos/<owner>/<repo>: the default branch of the repositories the host
\* knows; for any other the body has no default_branch field.
get_default_branch(repo) ==
  IF repo = "o/lib" THEN OkOf("main") ELSE ErrOf("decode")

\* GET /repos/<owner>/<repo>/commits/<ref>: the commit a ref of a known
\* repository points at.
get_latest_commit(repo, tag) ==
  IF repo = "o/lib" /\ tag \in {"main", "v0.3.0"} THEN OkOf(Sha)
  ELSE ErrOf("decode")

\* A result together with the requests to api.github.com made for it.
Called(r, calls) == [ok |-> r.ok, val |-> r.val, err |-> r.err, calls |-> calls]

\* The two requests of parse_github_url.
repos_url(repo) == "repos/" \o repo
commits_url(repo, tag) == "repos/" \o repo \o "/commits/" \o tag

\* The end of parse_github_url: the ref and the commit the URL leaves open
\* are asked of the host, the ref first.
resolve_ref(repo, tag_commit, online) ==
  LET branch == IF Len(tag_commit) > 0 THEN OkOf(tag_commit[1])
                ELSE IF online THEN get_default_branch(repo)
                ELSE ErrOf("network")
      first == IF Len(tag_commit) > 0 THEN <<>> ELSE <<repos_url(repo)>>
  IN  IF ~branch.ok THEN Called(ErrOf(branch.err), first)
      ELSE
        LET commit == IF Len(tag_commit) > 1 THEN OkOf(tag_commit[2])
                      ELSE IF online THEN get_latest_commit(repo, branch.val[1])
                      ELSE ErrOf("network")
            second == IF Len(tag_commit) > 1 THEN <<>>
                      ELSE <<commits_url(repo, branch.val[1])>>
        IN  IF ~commit.ok THEN Called(ErrOf(commit.err), first \o second)
            ELSE Called(OkOf(RepoInfo(repo, branch.val[1], commit.val[1])),
                        first \o second)

\* parse_github_url, given whether the host can be reached.
parse_github_url(url, online) ==
  IF ~starts_with(url, "https://github.com/")
  THEN Called(ErrOf("malformed-url"), <<>>)
  ELSE
    Let(split(strip_prefix(url, "https://github.com/"), "/"),
        LAMBDA parts :
          IF Len(parts) < 2 THEN Called(ErrOf("malformed-url"), <<>>)
          ELSE
            Let(split(IF ends_with(parts[2], ".git")
                      THEN strip_suffix(parts[2], ".git") ELSE parts[2], "#"),
                LAMBDA repo_parts :
                  Let(IF Len(repo_parts) > 1 THEN split(repo_parts[2], "@") ELSE <<>>,
                      LAMBDA tag_commit :
                        resolve_ref(parts[1] \o "/" \o repo_parts[1], tag_commit,
                                    online))))

\* A URL by its parts, and the text written from them:
\* <host><owner>/<repo>[.git][#<ref>[@<commit>]].
Url(host, owner, repo, git, ref, commit) ==
  [host |-> host, owner |-> owner, repo |-> repo, git |-> git, ref |-> ref,
   commit |-> commit]

url_text(u) ==
  u.host \o u.owner \o "/" \o u.repo \o (IF u.git THEN ".git" ELSE "")
    \o (IF u.ref = None THEN ""
        ELSE "#" \o u.ref[1]
               \o (IF u.commit = None THEN "" ELSE "@" \o u.commit[1]))

\* RepoInfo::guess_version: the ref without a leading "v" when that is a
\* dotted numeric triple.
guess_version(info) ==
  LET t == IF starts_with(info.tag, "v") THEN strip_prefix(info.tag, "v")
           ELSE info.tag
  IN  Let(split(t, "."),
          LAMBDA parts : IF Len(parts) = 3 /\ \A i \in 1..3 : AllDigits(parts[i])
                         THEN Some(t) ELSE None)

\* ------------------------------------------------------------------------
\* Manifests and the DepRefs (enum Mops) they yield

Mops(kind, name, val) == [kind |-> kind, name |-> name, val |-> val]

\* Mops::get_display_key
get_display_key(m) == Dash(m.name, m.val)

\* The local filesystem: the paths that exist and what they canonicalize to.
Canonical == [p \in {"./v", "v"} |-> "/w/v"]

path_exists(path) == path \in DOMAIN Canonical

\* A manifest file: whether it is valid TOML, its package.version and its
\* [dependencies] entries in file order.
Toml(version, deps) == [valid |-> TRUE, version |-> version, deps |-> deps]
Dep(lib, value) == [lib |-> lib, value |-> value]

InvalidToml == [valid |-> FALSE, version |-> None, deps |-> <<>>]

\* The classification of one [dependencies] entry.
classify(d) ==
  IF starts_with(d.value, "https://github.com") THEN Mops("Repo", d.lib, d.value)
  ELSE IF path_exists(d.value) THEN Mops("Local", d.lib, d.value)
  ELSE Mops("Mops", d.lib, d.value)

\* parse_mops_toml: MopsConfig { version, dependencies }.
parse_mops_toml(doc) ==
  IF ~doc.valid THEN ErrOf("decode")
  ELSE OkOf([version |-> doc.version,
             dependencies |-> [i \in 1..Len(doc.deps) |-> classify(doc.deps[i])]])

Url1 == "https://github.com/o/lib#v0.3.0@" \o Sha
Url2 == "https://github.com/o/lib"

\* raw.githubusercontent.com/<repo>/<commit>/mops.toml: the manifest of o/lib.
RepoToml == Toml(None, <<Dep("a", "1.0.0")>>)

\* fetch_file: a body starting with "404: Not Found" is an error, as is a
\* failed request.
fetch_file(info, online) ==
  IF ~online THEN ErrOf("network")
  ELSE IF info.repo = "o/lib" /\ info.commit = Sha THEN OkOf(RepoToml)
  ELSE ErrOf("not-found")

\* /w/v/mops.toml, the manifest of the local package.
LocalToml == Toml(Some("0.1.0"), <<Dep("a", "1.0.0"), Dep("loc", "v")>>)

\* The root manifests mops.toml is edited to.
RootManifests ==
  {Toml(None, <<Dep("a", "1.0.0"), Dep("b", "1.0.0")>>),
   Toml(None, <<Dep("a-0", "1.0.0"), Dep("a", "1.0.0")>>),
   Toml(None, <<Dep("lib", Url1), Dep("b", "1.0.0")>>),
   Toml(None, <<Dep("loc", "./v"), Dep("c", "1.0.0")>>)}

\* ------------------------------------------------------------------------
\* The registry

\* One entry of config.dependencies of a registry package.
RegDep(name, version, repo) == [name |-> name, version |-> version, repo |-> repo]

Details(dependencies) ==
  [storage |-> StorageId, base_dir |-> "src", dependencies |-> dependencies]

DepA == RegDep("a", "1.0.0", "")
DepB == RegDep("b", "1.0.0", "")
DepC1 == RegDep("c", "1.0.0", "")
DepC2 == RegDep("c", "2.0.0", "")
\* A version string the registry accepts and semver does not.
DepC0 == RegDep("c", "1.0", "")
\* A sub-dependency published with neither a version nor a repo.
DepX == RegDep("x", "", "")

\* The registries considered: the dependencies of a@1.0.0, b@1.0.0 and
\* c@1.0.0 vary, so that the graphs hold chains, diamonds, version splits
\* and cycles through registry, repo and local packages.
Registries ==
  {[k \in {<<"a", "1.0.0">>, <<"b", "1.0.0">>, <<"c", "1.0.0">>,
           <<"c", "2.0.0">>, <<"c", "1.0">>, <<"a-0", "1.0.0">>} |->
      IF k = <<"a", "1.0.0">> THEN Details(da)
      ELSE IF k = <<"b", "1.0.0">> THEN Details(db)
      ELSE IF k = <<"c", "1.0.0">> THEN Details(dc)
      ELSE Details(<<>>)] :
     da \in {<<>>, <<DepC1>>, <<DepC2>>, <<DepB>>, <<DepC0>>},
     db \in {<<DepC2>>, <<DepA>>, <<RegDep("lib", "", Url1)>>,
             <<RegDep("lib", "", Url2), DepC2>>},
     dc \in {<<>>, <<DepA>>, <<DepX>>}}

\* get_package_details(name, version) on the registry reg.
get_package_details(reg, name, version, online) ==
  IF ~online THEN ErrOf("network")
  ELSE IF <<name, version>> \in DOMAIN reg THEN OkOf(reg[<<name, version>>])
  ELSE ErrOf("not-found")

\* The DepRef of one sub-dependency of a registry package.
sub_dependency(d) ==
  IF d.version = "" THEN Mops("Repo", d.name, d.repo)
  ELSE Mops("Mops", d.name, d.version)

\* ------------------------------------------------------------------------
\* State

VARIABLES
  registry,   \* the registry's answers to get_package_details
  mops_toml,  \* the file mops.toml
  mops_lock,  \* the file mops.lock: None when absent, else Some(records)
  pc,         \* update_mops_lock: "idle", "walk", "done", "error", "panic"
  queue,      \* the walker's VecDeque of DepRefs
  map,        \* the walker's BTreeMap from DedupKey to Package
  err,        \* the kind of the error update_mops_lock returned
  conflict,   \* the two records a version-conflict error names
  runs,       \* the number of runs of update_mops_lock started
  lock0,      \* mops.lock as the current run found it
  last,       \* Some of the key the skip check tested and the key inserted,
              \* for the latest insertion into map
  written,    \* for each successful run: its manifest and the lock it wrote
  steps,      \* the number of DepRefs the current run has dequeued
  failed,     \* the errors the calls of the current run have returned
  rv_map,     \* resolve_versions: the argument map
  rv_iter,    \* the records map.into_values() has still to yield
  rv_res,     \* the local res
  rv_out,     \* None while the loop runs, then Some(result)
  url,        \* the URL given to parse_github_url, by its parts
  url_out,    \* None before parse_github_url returns, then Some(result)
  disk,        \* the files under the cache root: path |-> content
  fetch_pc,    \* download_packages_from_lock: "idle", "mops", "git", "done",
               \* "error"; "deleted" once a package directory was removed
  mop_futures, \* the download_mops_package futures of the run
  git_futures, \* the download_github_package futures of the run
  fetch_runs,  \* the number of runs of download_packages_from_lock started
  disk0,       \* disk as the current run found it
  after,       \* fetch_pc as the current run found it
  dispatched,  \* the names of the packages the run pushed a future for
  net,         \* the network calls the run has issued
  wrote        \* the paths the run has written

rv_vars == <<rv_map, rv_iter, rv_res, rv_out>>

url_vars == <<url, url_out>>

walk_vars == <<registry, mops_toml, mops_lock, pc, queue, map, err, conflict,
               runs, lock0, last, written, steps, failed>>

fetch_vars == <<disk, fetch_pc, mop_futures, git_futures, fetch_runs, disk0,
                after, dispatched, net, wrote>>

vars == <<walk_vars, rv_vars, url_vars, fetch_vars>>

\* ------------------------------------------------------------------------
\* update_mops_lock

\* The most runs of update_mops_lock in one behaviour.
MaxRuns == 3

\* A mops.lock that is there and does not parse: a file cut short, or
\* edited by hand. No record can be read from it.
Corrupt == <<<<>>, "corrupt">>

\* parse_mops_lock: the file is read, parsed as TOML and deserialized.
parse_mops_lock(lock) ==
  IF lock = None THEN ErrOf("io")
  ELSE IF lock = Corrupt THEN ErrOf("decode")
  ELSE OkOf(lock[1])

\* parse_mops_lock(lock).unwrap_or_default()
lock_or_default(lock) ==
  Let(parse_mops_lock(lock), LAMBDA r : IF r.ok THEN r.val[1] ELSE <<>>)

\* The outcome of one iteration of the walker loop.
Skip(rest) ==
  [pc |-> "walk", queue |-> rest, map |-> None, err |-> "", last |-> None,
   failed |-> {}]
Fail(kind) ==
  [pc |-> "error", queue |-> <<>>, map |-> None, err |-> kind, last |-> None,
   failed |-> {kind}]

\* A variant of assert_insert: the package built is not recorded.
assert_insert_forgets(m, rest, check, pkg) ==
  [pc |-> "walk", queue |-> rest, map |-> None, err |-> "",
   last |-> Some([check |-> check, key |-> get_key(pkg)]), failed |-> {}]

\* assert!(map.insert(pkg.get_key(), pkg).is_none()), after the iteration
\* tested the key check and left the queue rest.
assert_insert(m, rest, check, pkg) ==
  Let(get_key(pkg),
      LAMBDA key :
        IF contains_key(m, key)
        THEN [pc |-> "panic", queue |-> <<>>, map |-> None, err |-> "",
              last |-> Some([check |-> check, key |-> key]), failed |-> {}]
        ELSE [pc |-> "walk", queue |-> rest, map |-> Some(insert(m, key, pkg)),
              err |-> "", last |-> Some([check |-> check, key |-> key]),
              failed |-> {}])

DisplayKeys(deps) == [i \in 1..Len(deps) |-> get_display_key(deps[i])]

\* A variant of registry_package: a sub-dependency that is already queued is
\* not listed.
registry_package_unqueued(m, rest, name, version, details) ==
  Let([i \in 1..Len(details.dependencies) |->
         sub_dependency(details.dependencies[i])],
      LAMBDA deps :
        assert_insert(m, rest \o deps, Dash(name, version),
          Package(name, Some(version), details.storage, details.base_dir, None,
                  DisplayKeys(SelectSeq(deps, LAMBDA d : d \notin Range(rest))))))

\* The package of a registry DepRef, from the details the registry returned.
registry_package(m, rest, name, version, details) ==
  Let([i \in 1..Len(details.dependencies) |->
         sub_dependency(details.dependencies[i])],
      LAMBDA deps :
        assert_insert(m, rest \o deps, Dash(name, version),
          Package(name, Some(version), details.storage, details.base_dir, None,
                  DisplayKeys(deps))))

\* The arm Mops::Mops { name, version }.
walk_mops(m, rest, name, version, reg, online) ==
  IF contains_key(m, Dash(name, version)) THEN Skip(rest)
  ELSE Let(get_package_details(reg, name, version, online),
           LAMBDA r : IF ~r.ok THEN Fail(r.err)
                      ELSE registry_package(m, rest, name, version, r.val[1]))

\* The manifest of a repo package: what fetch_file returned, parsed; none
\* when fetch_file returned an error.
repo_manifest(repo_info, raw) ==
  Let(fetch_file(repo_info, raw),
      LAMBDA f : IF f.ok THEN parse_mops_toml(f.val[1])
                 ELSE OkOf([version |-> None, dependencies |-> <<>>]))

\* The error of fetch_file that if let Ok(str) = .. else drops, if any.
dropped(repo_info, raw) ==
  Let(fetch_file(repo_info, raw), LAMBDA f : IF f.ok THEN {} ELSE {f.err})

\* The package of a repo DepRef, from its RepoInfo and its manifest.
repo_package(m, rest, name, repo_info, mops) ==
  assert_insert(m, rest \o mops.dependencies, Dash(name, repo_info.commit),
    Package(name,
            IF mops.version = None THEN guess_version(repo_info) ELSE mops.version,
            "github", repo_info.base_dir, Some(repo_info),
            DisplayKeys(mops.dependencies)))

\* The arm Mops::Repo { name, repo }.
walk_repo(m, rest, name, repo, online, raw) ==
  Let(parse_github_url(repo, online),
      LAMBDA r :
        IF ~r.ok THEN Fail(r.err)
        ELSE IF contains_key(m, Dash(name, r.val[1].commit)) THEN Skip(rest)
        ELSE Let(repo_manifest(r.val[1], raw),
                 LAMBDA mops : IF ~mops.ok THEN Fail(mops.err)
                               ELSE [repo_package(m, rest, name, r.val[1],
                                                  mops.val[1])
                                       EXCEPT !.failed = dropped(r.val[1], raw)]))

\* The package of a local DepRef, from its canonical path and its manifest.
local_package(m, rest, name, canonicalized, mops) ==
  assert_insert(m, rest \o mops.dependencies, Dash(name, canonicalized),
    Package(name, mops.version, "file://" \o canonicalized, "src", None,
            DisplayKeys(mops.dependencies)))

\* The arm Mops::Local { name, path }.
walk_local(m, rest, name, path) ==
  IF ~path_exists(path) THEN Fail("io")
  ELSE IF contains_key(m, Dash(name, Canonical[path])) THEN Skip(rest)
  ELSE Let(parse_mops_toml(LocalToml),
           LAMBDA mops : IF ~mops.ok THEN Fail(mops.err)
                         ELSE local_package(m, rest, name, Canonical[path],
                                            mops.val[1]))

WalkIdle ==
  /\ registry = EmptyMap
  /\ mops_toml = Toml(None, <<>>)
  /\ mops_lock = None
  /\ pc = "idle"
  /\ queue = <<>>
  /\ map = EmptyMap
  /\ err = ""
  /\ conflict = <<>>
  /\ runs = 0
  /\ lock0 = None
  /\ last = None
  /\ written = {}
  /\ steps = 0
  /\ failed = {}

UrlIdle ==
  /\ url = Url("", "", "", FALSE, None, None)
  /\ url_out = None

ResolveIdle ==
  /\ rv_map = EmptyMap
  /\ rv_iter = <<>>
  /\ rv_res = EmptyMap
  /\ rv_out = None

FetchIdle ==
  /\ disk = EmptyMap
  /\ fetch_pc = "idle"
  /\ mop_futures = <<>>
  /\ git_futures = <<>>
  /\ fetch_runs = 0
  /\ disk0 = EmptyMap
  /\ after = "idle"
  /\ dispatched = {}
  /\ net = {}
  /\ wrote = {}

\* A project with a manifest and no lockfile yet.
Init ==
  /\ registry \in Registries
  /\ mops_toml \in RootManifests
  /\ mops_lock = None
  /\ pc = "idle"
  /\ queue = <<>>
  /\ map = EmptyMap
  /\ err = ""
  /\ conflict = <<>>
  /\ runs = 0
  /\ lock0 = None
  /\ last = None
  /\ written = {}
  /\ steps = 0
  /\ failed = {}
  /\ ResolveIdle
  /\ UrlIdle
  /\ FetchIdle

\* mops.toml is edited between two runs.
EditManifest ==
  /\ pc \in {"done", "error", "panic"}
  /\ runs < MaxRuns
  /\ mops_toml' \in RootManifests \ {mops_toml}
  /\ pc' = "idle"
  /\ UNCHANGED <<registry, mops_lock, queue, map, err, conflict, runs, lock0,
                 last, written, steps, failed, rv_vars, url_vars, fetch_vars>>

\* update_mops_lock up to its loop: the map is seeded from mops.lock, the
\* queue from mops.toml.
Start ==
  /\ pc \in {"idle", "done", "error", "panic"}
  /\ runs < MaxRuns
  /\ runs' = runs + 1
  /\ lock0' = mops_lock
  /\ \E mops \in {parse_mops_toml(mops_toml)} :
         IF mops.ok
         THEN /\ map' = collect(EmptyMap, lock_or_default(mops_lock))
              /\ queue' = mops.val[1].dependencies
              /\ pc' = "walk"
              /\ err' = ""
         ELSE /\ map' = EmptyMap
              /\ queue' = <<>>
              /\ pc' = "error"
              /\ err' = mops.err
  /\ conflict' = <<>>
  /\ last' = None
  /\ steps' = 0
  /\ failed' = {}
  /\ UNCHANGED <<registry, mops_toml, mops_lock, written, rv_vars, url_vars, fetch_vars>>

\* The most DepRefs one run dequeues in a behaviour; no run over the
\* manifests and registries considered comes near it.
MaxSteps == 12

\* The state after an iteration with outcome o.
Iterated(o) ==
  /\ steps < MaxSteps
  /\ pc' = o.pc
  /\ queue' = o.queue
  /\ map' = IF o.map = None THEN map ELSE o.map[1]
  /\ err' = o.err
  /\ last' = IF o.last = None THEN last ELSE o.last
  /\ steps' = steps + 1
  /\ failed' = failed \cup o.failed
  /\ UNCHANGED <<registry, mops_toml, mops_lock, conflict, runs, lock0,
                 written, rv_vars, url_vars, fetch_vars>>

\* One iteration of while let Some(m) = queue.pop_front(), on a registry
\* DepRef; the registry answers or the call fails.
WalkMops ==
  /\ pc = "walk"
  /\ queue # <<>>
  /\ Head(queue).kind = "Mops"
  /\ \E online \in BOOLEAN :
       \E o \in {walk_mops(map, Tail(queue), Head(queue).name, Head(queue).val,
                           registry, online)} : Iterated(o)

\* One iteration on a repo DepRef; the host API and the raw file host each
\* answer or fail.
WalkRepo ==
  /\ pc = "walk"
  /\ queue # <<>>
  /\ Head(queue).kind = "Repo"
  /\ \E online, raw \in BOOLEAN :
       \E o \in {walk_repo(map, Tail(queue), Head(queue).name, Head(queue).val,
                           online, raw)} : Iterated(o)

\* One iteration on a local DepRef.
WalkLocal ==
  /\ pc = "walk"
  /\ queue # <<>>
  /\ Head(queue).kind = "Local"
  /\ \E o \in {walk_local(map, Tail(queue), Head(queue).name, Head(queue).val)} :
       Iterated(o)

\* A variant of write_lock: File::create(lock) comes before resolve_versions.
write_lock_first(lock, r, outcome) ==
  IF ~r.ok THEN [lock |-> Corrupt, err |-> "version-conflict"]
  ELSE IF outcome = "create" THEN [lock |-> lock, err |-> "io"]
  ELSE IF outcome = "write_all" THEN [lock |-> Corrupt, err |-> "io"]
  ELSE [lock |-> Some(r.pkgs), err |-> ""]

\* The end of update_mops_lock on the result r of resolve_versions: the file
\* mops.lock after it and the error returned. File::create or write_all may
\* fail, as outcome tells; a file created and not written whole does not
\* parse.
write_lock(lock, r, outcome) ==
  IF ~r.ok THEN [lock |-> lock, err |-> "version-conflict"]
  ELSE IF outcome = "create" THEN [lock |-> lock, err |-> "io"]
  ELSE IF outcome = "write_all" THEN [lock |-> Corrupt, err |-> "io"]
  ELSE [lock |-> Some(r.pkgs), err |-> ""]

\* update_mops_lock after its loop: resolve_versions, then mops.lock is
\* created and written.
Finish ==
  /\ pc = "walk"
  /\ queue = <<>>
  /\ \E r \in {resolve_versions(map)}, outcome \in {"ok", "create", "write_all"} :
       \E w \in {write_lock(mops_lock, r, outcome)} :
         /\ mops_lock' = w.lock
         /\ err' = w.err
         /\ pc' = IF w.err = "" THEN "done" ELSE "error"
         /\ conflict' = IF r.ok THEN <<>> ELSE <<r.e[1], r.p[1]>>
         /\ written' = IF w.err = ""
                       THEN written \cup {[toml |-> mops_toml, lock |-> r.pkgs]}
                       ELSE written
  /\ UNCHANGED <<registry, mops_toml, queue, map, runs, lock0, last, steps,
                 failed, rv_vars, url_vars, fetch_vars>>

Walk == WalkMops \/ WalkRepo \/ WalkLocal

Next == EditManifest \/ Start \/ WalkMops \/ WalkRepo \/ WalkLocal \/ Finish

Spec == Init /\ [][Next]_vars

\* The first run of update_mops_lock in a project.
FirstStart == runs = 0 /\ Start

NextLive == FirstStart \/ WalkMops \/ WalkRepo \/ WalkLocal \/ Finish

\* One run in which every call returns and the run goes on: an iteration
\* that can be taken is taken, and so is the step after the loop.
SpecLive ==
  Init /\ [][NextLive]_vars /\ WF_vars(WalkMops) /\ WF_vars(WalkRepo)
       /\ WF_vars(WalkLocal) /\ WF_vars(Finish)

\* ------------------------------------------------------------------------
\* Properties of update_mops_lock

\* C1: whatever the dependency graph (chains, diamonds, cycles through
\* registry, repo and local packages), when every call returns the walker
\* loop is left: by the error a call returned, or with its queue empty.
WalkerTerminates ==
  (pc = "walk") ~>
    (pc \in {"done", "error"} /\ (err \in {"", "version-conflict"} => queue = <<>>))

\* A run has walked the cycle a@1.0.0 -> c@1.0.0 -> a@1.0.0 to its end.
WalkerTerminatesWitness ==
  /\ pc = "done"
  /\ registry[<<"a", "1.0.0">>].dependencies = <<DepC1>>
  /\ registry[<<"c", "1.0.0">>].dependencies = <<DepA>>
  /\ {"a-1.0.0", "c-1.0.0"} \subseteq DOMAIN map
  /\ lock0 = None

\* C2: every insertion into the walker's map is a first insertion (the
\* assertion does not fail), the key the skip check tested is get_key() of
\* the package inserted, and every record of the map is stored under its own
\* DedupKey, so no two records share one.
FirstInsert ==
  /\ pc # "panic"
  /\ last # None => last[1].check = last[1].key
  /\ \A k \in DOMAIN map : get_key(map[k]) = k
  /\ \A k1, k2 \in DOMAIN map : get_key(map[k1]) = get_key(map[k2]) => k1 = k2

\* A run has ended with records of the three kinds in its map, the last of
\* them inserted by this run.
FirstInsertWitness ==
  /\ pc = "done"
  /\ last # None
  /\ {get_type(map[k]).kind : k \in DOMAIN map} = {"Mops", "Repo", "Local"}

\* The scenario: no lockfile, the root manifest depends on a@1.0.0 and
\* b@1.0.0, a@1.0.0 on c@1.0.0 and b@1.0.0 on c@2.0.0.
VersionSplit ==
  /\ lock0 = None
  /\ runs = 1
  /\ mops_toml = Toml(None, <<Dep("a", "1.0.0"), Dep("b", "1.0.0")>>)
  /\ registry[<<"a", "1.0.0">>].dependencies = <<DepC1>>
  /\ registry[<<"b", "1.0.0">>].dependencies = <<DepC2>>
  /\ registry[<<"c", "1.0.0">>].dependencies = <<>>

Ended == pc \in {"done", "error"} /\ err \notin {"network", "io"}

\* C4 as stated: in the scenario the run aborts with a version conflict that
\* names both c records and writes no lockfile.
VersionSplitAborts ==
  (VersionSplit /\ Ended) =>
    /\ pc = "error"
    /\ err = "version-conflict"
    /\ {p.version : p \in Range(conflict)} = {Some("1.0.0"), Some("2.0.0")}
    /\ mops_lock = None

\* C4, amended: in the scenario the run succeeds without a conflict and
\* writes a lockfile of three records, a@1.0.0, b@1.0.0 and c@2.0.0; the
\* record c@1.0.0 is dropped.
VersionSplitKeepsHigher ==
  (VersionSplit /\ Ended) =>
    /\ pc = "done"
    /\ mops_lock # None
    /\ [i \in 1..Len(mops_lock[1]) |->
          <<mops_lock[1][i].name, mops_lock[1][i].version>>]
         = <<<<"a", Some("1.0.0")>>, <<"b", Some("1.0.0")>>, <<"c", Some("2.0.0")>>>>
    /\ {"c-1.0.0", "c-2.0.0"} \subseteq DOMAIN map

VersionSplitWitness == VersionSplit /\ pc = "done"

\* C9 as stated: two runs given the same manifest (the registry and the host
\* answer the same throughout) write the same lockfile.
SameManifestSameLock ==
  \A w1, w2 \in written : w1.toml = w2.toml => w1.lock = w2.lock

\* C10 as stated: the records of a written lockfile are in ascending order
\* of their DedupKey.
LockSortedByDedupKey ==
  mops_lock # None =>
    \A i, j \in 1..Len(mops_lock[1]) :
      i < j => StrLess(get_key(mops_lock[1][i]), get_key(mops_lock[1][j]))

\* C10, amended: the records of a written lockfile are in strictly ascending
\* order of their name.
LockSortedByName ==
  mops_lock # None =>
    \A i, j \in 1..Len(mops_lock[1]) :
      i < j => StrLess(mops_lock[1][i].name, mops_lock[1][j].name)

\* A lockfile has been written that holds a and a-0 among other records.
LockSortedWitness ==
  /\ pc = "done"
  /\ mops_lock # None
  /\ Len(mops_lock[1]) >= 3
  /\ {"a", "a-0"} \subseteq {p.name : p \in Range(mops_lock[1])}

\* The DedupKey a DepRef resolves to when every call answers; none when its
\* URL or its path is refused.
key_of(d) ==
  IF d.kind = "Mops" THEN Some(Dash(d.name, d.val))
  ELSE IF d.kind = "Repo"
  THEN Let(parse_github_url(d.val, TRUE),
           LAMBDA r : IF r.ok THEN Some(Dash(d.name, r.val[1].commit)) ELSE None)
  ELSE IF path_exists(d.val) THEN Some(Dash(d.name, Canonical[d.val]))
  ELSE None

\* The DepRefs the package of the DepRef d declares, when every call answers.
declared(reg, d) ==
  IF d.kind = "Mops"
  THEN Let(get_package_details(reg, d.name, d.val, TRUE),
           LAMBDA r : IF ~r.ok THEN <<>>
                      ELSE [i \in 1..Len(r.val[1].dependencies) |->
                              sub_dependency(r.val[1].dependencies[i])])
  ELSE IF d.kind = "Repo"
  THEN Let(parse_github_url(d.val, TRUE),
           LAMBDA r : IF ~r.ok THEN <<>>
                      ELSE Let(repo_manifest(r.val[1], TRUE),
                               LAMBDA m : IF m.ok THEN m.val[1].dependencies
                                          ELSE <<>>))
  ELSE IF path_exists(d.val)
  THEN Let(parse_mops_toml(LocalToml),
           LAMBDA m : IF m.ok THEN m.val[1].dependencies ELSE <<>>)
  ELSE <<>>

\* The DepRefs reachable from the DepRefs S through declared dependencies.
RECURSIVE Reach(_, _)
Reach(reg, S) ==
  Let(S \cup UNION {Range(declared(reg, d)) : d \in S},
      LAMBDA T : IF T = S THEN S ELSE Reach(reg, T))

\* The root DepRefs of a manifest.
Roots(toml) ==
  Let(parse_mops_toml(toml), LAMBDA m : IF m.ok THEN m.val[1].dependencies ELSE <<>>)

\* The distinct DedupKeys of the dependency graph of a manifest.
DedupKeys(reg, toml) ==
  {key_of(d)[1] : d \in {x \in Reach(reg, Range(Roots(toml))) : key_of(x) # None}}

\* The keys the current run has inserted into its map.
Inserted == DOMAIN map \ DOMAIN collect(EmptyMap, lock_or_default(lock0))

\* The number of dependencies the records of m under the keys K list.
RECURSIVE SumDeps(_, _)
SumDeps(m, K) ==
  IF K = {} THEN 0
  ELSE Let(CHOOSE k \in K : TRUE,
           LAMBDA k : Len(m[k].dependencies) + SumDeps(m, K \ {k}))

\* C11 as stated: a run that ends has dequeued at most as many DepRefs as the
\* dependency graph has distinct DedupKeys.
StepsWithinDedupKeys ==
  pc = "done" => steps <= Cardinality(DedupKeys(registry, mops_toml))

\* C11, amended: the DepRefs dequeued and those still queued are the root
\* DepRefs and one per dependency the packages inserted by the run declare,
\* so that a run dequeues at most that many; the packages a run inserts have
\* distinct DedupKeys of the graph, so they are at most as many as those.
StepsWithinDepRefs ==
  pc \in {"walk", "done"} =>
    /\ steps + Len(queue) = Len(Roots(mops_toml)) + SumDeps(map, Inserted)
    /\ Inserted \subseteq DedupKeys(registry, mops_toml)

\* A first run over the diamond a -> c@2.0.0 <- b has ended: three keys,
\* four DepRefs dequeued.
StepsWitness ==
  /\ pc = "done"
  /\ lock0 = None
  /\ mops_toml = Toml(None, <<Dep("a", "1.0.0"), Dep("b", "1.0.0")>>)
  /\ registry[<<"a", "1.0.0">>].dependencies = <<DepC2>>
  /\ registry[<<"b", "1.0.0">>].dependencies = <<DepC2>>
  /\ DOMAIN map = {"a-1.0.0", "b-1.0.0", "c-2.0.0"}
  /\ steps = 4

\* C12 as stated: a run of update_mops_lock that finds a mops.lock which
\* exists and does not parse fails with an error; it never ends in success.
CorruptLockIsFatal == lock0 = Corrupt => pc # "done"

\* C13 as stated: a run of update_mops_lock in which a request failed on the
\* network never ends in success.
FailuresAreSurfaced == pc = "done" => "network" \notin failed

\* The diamond: a and b are the roots and each depends on c@2.0.0.
Diamond ==
  /\ mops_toml = Toml(None, <<Dep("a", "1.0.0"), Dep("b", "1.0.0")>>)
  /\ registry[<<"a", "1.0.0">>].dependencies = <<DepC2>>
  /\ registry[<<"b", "1.0.0">>].dependencies = <<DepC2>>

\* The records of the lockfile with the name n.
Named(n) == {i \in 1..Len(mops_lock[1]) : mops_lock[1][i].name = n}

stated_sub_dependency(d) ==
  IF d.version = "" /\ d.repo # "" THEN Mops("Repo", d.name, d.repo)
  ELSE Mops("Mops", d.name, d.version)

\* C18 as stated: when the walker inserts a registry package it enqueues, for
\* each sub-dependency the registry returned, a Repo DepRef if the version
\* is empty and a repo URL is given, and a Registry DepRef in every other
\* case.
SubDependencyKinds ==
  [][pc = "walk" /\ queue # <<>> /\ Head(queue).kind = "Mops" /\ map' # map =>
       Let(registry[<<Head(queue).name, Head(queue).val>>].dependencies,
           LAMBDA deps :
             queue' = Tail(queue) \o
                        [i \in 1..Len(deps) |-> stated_sub_dependency(deps[i])])]_vars

\* The run failed when it created or wrote mops.lock.
WriteFailed == pc = "error" /\ err = "io" /\ "io" \notin failed

\* C19: mops.lock changes only in the step that follows the loop, when the
\* queue is empty and resolve_versions has returned Ok; while a run walks,
\* and after it has failed in the walker or in the resolver, the file is as
\* the run found it.
LockWrittenLast ==
  /\ [][mops_lock' # mops_lock =>
          pc = "walk" /\ queue = <<>> /\ resolve_versions(map).ok]_vars
  /\ [](pc \in {"walk", "error", "panic"} /\ ~WriteFailed => mops_lock = lock0)

\* A run that found a lockfile has failed on a version conflict and has left
\* the file as it was.
LockWrittenLastWitness ==
  /\ pc = "error"
  /\ err = "version-conflict"
  /\ lock0 \notin {None, Corrupt}
  /\ mops_lock = lock0

\* C21 as stated: when a run that found no lockfile, or an empty one, ends
\* without error, the keys of its map are the DedupKeys of the packages
\* reachable from the root DepRefs through declared dependencies.
MapIsReachable ==
  pc = "done" /\ lock0 \in {None, Some(<<>>)} =>
    DOMAIN map = DedupKeys(registry, mops_toml)

\* ------------------------------------------------------------------------
\* resolve_versions on its own, over bounded walker maps

\* The most records a map given to resolve_versions holds.
MaxResolveInput == 3

ResolveNames == {"c", "d"}

\* Versions that parse (with "10.0.0" above "2.0.0" by precedence and below
\* it as a string, and a pre-release) and versions that do not.
ResolveVersions == {"1.0.0", "2.0.0", "10.0.0", "1.0.0-rc.1", "1.0", "01.0.0"}

RegistryRecord(name, version) ==
  Package(name, Some(version), StorageId, "src", None, <<>>)

LocalRecord(name, canonical, version) ==
  Package(name, version, "file://" \o canonical, "src", None, <<>>)

RepoRecord(name, info, version) ==
  Package(name, version, "github", info.base_dir, Some(info), <<>>)

\* Records of the three kinds, some without a version.
ResolveRecords ==
  {RegistryRecord(n, v) : n \in ResolveNames, v \in ResolveVersions}
  \cup {LocalRecord("c", "/w/c", None), LocalRecord("c", "/w/v/c", Some("2.0.0")),
        RepoRecord("d", RepoInfo("o/d", "main", "0123456789abcdef"), None),
        RepoRecord("d", RepoInfo("o/d", "v3.0.0", "89abcdef01234567"), Some("3.0.0"))}

MapOf(S) == [k \in {get_key(p) : p \in S} |-> CHOOSE p \in S : get_key(p) = k]

ResolveInit ==
  /\ \E S \in SUBSET ResolveRecords :
       /\ Cardinality(S) <= MaxResolveInput
       /\ rv_map = MapOf(S)
  /\ rv_iter = into_values(rv_map)
  /\ rv_res = EmptyMap
  /\ rv_out = None
  /\ WalkIdle
  /\ UrlIdle
  /\ FetchIdle

\* for pkg in map.into_values() { ... }
ResolveIter ==
  /\ rv_out = None
  /\ rv_iter # <<>>
  /\ LET r == resolve_step(rv_res, Head(rv_iter))
     IN  /\ rv_res' = r.res
         /\ rv_out' = r.err
  /\ rv_iter' = Tail(rv_iter)
  /\ UNCHANGED <<rv_map, walk_vars, url_vars, fetch_vars>>

\* Ok(res.into_values().collect())
ResolveReturn ==
  /\ rv_out = None
  /\ rv_iter = <<>>
  /\ rv_out' = Some(Ok(into_values(rv_res)))
  /\ UNCHANGED <<rv_map, rv_iter, rv_res, walk_vars, url_vars, fetch_vars>>

ResolveNext == ResolveIter \/ ResolveReturn

SpecResolve == ResolveInit /\ [][ResolveNext]_vars

MapValues(m) == {m[k] : k \in DOMAIN m}

SameName(m, name) == {p \in MapValues(m) : p.name = name}

Parsed(p) == IF p.version = None THEN None ELSE parse_version(p.version[1])

\* C3: when resolve_versions succeeds, its output holds exactly one record
\* for each name of the input map, taken from the input, and the record kept
\* for a name has a semantic version that is not lower than that of any other
\* input record of the name.
ResolveKeepsHighest ==
  (rv_out # None /\ rv_out[1].ok) =>
    LET out == rv_out[1].pkgs
    IN  /\ Range(out) \subseteq MapValues(rv_map)
        /\ {p.name : p \in Range(out)} = {p.name : p \in MapValues(rv_map)}
        /\ \A i, j \in 1..Len(out) : out[i].name = out[j].name => i = j
        /\ \A o \in Range(out) : \A p \in SameName(rv_map, o.name) \ {o} :
             /\ Parsed(o) # None
             /\ Parsed(p) # None
             /\ ~VersionLess(Parsed(o)[1], Parsed(p)[1])
        /\ rv_out[1] = resolve_versions(rv_map)

\* A successful resolution of a map in which one name is carried by three
\* records whose key order is not their version order.
ResolveKeepsHighestWitness ==
  /\ rv_out # None
  /\ rv_out[1].ok
  /\ \E o \in Range(rv_out[1].pkgs) :
       /\ Cardinality(SameName(rv_map, o.name)) = 3
       /\ o.version = Some("10.0.0")
       /\ \E p \in SameName(rv_map, o.name) : p.version = Some("2.0.0")

\* A name carried by two or more records, one of which has no version or a
\* version that is not a semantic version.
Unresolvable(m) ==
  \E p \in MapValues(m) :
    /\ Cardinality(SameName(m, p.name)) >= 2
    /\ Parsed(p) = None

\* C5: resolve_versions returns the version-conflict error exactly when some
\* name is carried by two or more records of which one has no version or an
\* unparseable one; the error names two records of that name; a name carried
\* by one record causes no error whatever its version.
ResolveConflictIff ==
  rv_out # None =>
    /\ ~rv_out[1].ok <=> Unresolvable(rv_map)
    /\ ~rv_out[1].ok =>
         LET e == rv_out[1].e[1]
             p == rv_out[1].p[1]
         IN  /\ e.name = p.name
             /\ e # p
             /\ {e, p} \subseteq MapValues(rv_map)
             /\ Parsed(e) = None \/ Parsed(p) = None

\* The error is returned for a name with a versionless record, and in the
\* same map a versionless record is alone under its name.
ResolveConflictWitness ==
  /\ rv_out # None
  /\ ~rv_out[1].ok
  /\ rv_out[1].e[1].version = None \/ rv_out[1].p[1].version = None
  /\ \E q \in MapValues(rv_map) :
       Parsed(q) = None /\ Cardinality(SameName(rv_map, q.name)) = 1

\* ------------------------------------------------------------------------
\* parse_github_url on its own, over URLs written from their parts

UrlHosts == {"https://github.com/", "http://github.com/"}

UrlRepos == {"lib", "splay"}

\* Refs as they are written after "#": tags, a branch, a ref ending in
\* ".git" and a branch with a "/".
UrlRefs == {"v0.3.0", "main", "rel.git", "f/x"}

\* What is written after "@": an object id, a symbolic ref, an abbreviated
\* id, nothing.
UrlCommits == {Sha, "main", "907a4e7", ""}

Urls ==
  {u \in [host : UrlHosts, owner : {"o"}, repo : UrlRepos, git : BOOLEAN,
          ref : {None} \cup {Some(t) : t \in UrlRefs},
          commit : {None} \cup {Some(c) : c \in UrlCommits}] :
     u.ref = None => u.commit = None}

UrlInit ==
  /\ url \in Urls
  /\ url_out = None
  /\ WalkIdle
  /\ ResolveIdle
  /\ FetchIdle

\* parse_github_url(url); the host answers or cannot be reached.
UrlParse ==
  /\ url_out = None
  /\ \E online \in BOOLEAN :
       \E r \in {parse_github_url(url_text(url), online)} : url_out' = Some(r)
  /\ UNCHANGED <<url, walk_vars, rv_vars, fetch_vars>>

UrlNext == UrlParse

SpecUrl == UrlInit /\ [][UrlNext]_vars

\* parse_github_url has returned Ok.
Accepted == url_out # None /\ url_out[1].ok

\* The RepoInfo it returned.
Info == url_out[1].val[1]

\* C14 as stated: parse_github_url makes no request to the host API for a
\* URL written with a ref and a commit; for a URL with a ref only it makes
\* one, to the commits endpoint of the ref; for a URL with neither it asks
\* the repository endpoint first and then, when that answered, the commits
\* endpoint of the branch that was returned, and nothing else.
HostCalls ==
  url_out # None /\ url.host = "https://github.com/" =>
    Let(url_out[1].calls,
        LAMBDA calls :
          /\ url.commit # None => calls = <<>>
          /\ url.ref # None /\ url.commit = None =>
                /\ Len(calls) = 1
                /\ Accepted => calls = <<commits_url(Info.repo, Info.tag)>>
          /\ url.ref = None =>
                /\ Len(calls) \in {1, 2}
                /\ calls[1] = repos_url(url.owner \o "/" \o url.repo)
                /\ Len(calls) = 2 =>
                      /\ get_default_branch(url.owner \o "/" \o url.repo).ok
                      /\ calls[2] =
                           commits_url(url.owner \o "/" \o url.repo,
                             get_default_branch(url.owner \o "/" \o url.repo).val[1])
                /\ Accepted =>
                      calls = <<repos_url(Info.repo),
                                commits_url(Info.repo, Info.tag)>>)

HexDigits == Digits \cup {"a", "b", "c", "d", "e", "f"}

\* A git object id: 40 hexadecimal characters.
IsObjectId(s) == Len(s) = 40 /\ \A i \in 1..40 : CharAt(s, i) \in HexDigits

\* C15 as stated: the commit of every RepoInfo parse_github_url returns is an
\* object id of 40 hexadecimal characters.
CommitIsObjectId == Accepted => IsObjectId(Info.commit)

\* C16 as stated: for every URL parse_github_url accepts, the repo returned
\* is <owner>/<repo> without ".git", and the ref and the commit written in
\* the URL are returned unchanged.
UrlPartsReturned ==
  Accepted =>
    /\ Info.repo = url.owner \o "/" \o url.repo
    /\ url.ref # None => Info.tag = url.ref[1]
    /\ url.commit # None => Info.commit = url.commit[1]

\* ------------------------------------------------------------------------
\* download_packages_from_lock: the cache, the services and the tasks

\* The root cache directory the fetcher is given.
Root == "/cache"

\* Path::join: an absolute path replaces the base, an empty one names the
\* base as a directory.
join(base, path) ==
  IF path = "" THEN base
  ELSE IF starts_with(path, "/") THEN path
  ELSE base \o "/" \o path

\* The files of d in the directory dir.
files_under(d, dir) == {f \in DOMAIN d : starts_with(f, dir \o "/")}

\* Path::exists on the cache d: a file of d, a directory that holds one, or a
\* directory of the local filesystem.
exists(d, path) ==
  \/ path \in DOMAIN d
  \/ files_under(d, path) # {}
  \/ path \in Range(Canonical)

\* The lockfile records the fetcher runs are given: a@1.0.0 has two files,
\* b@1.0.0 one empty file and e@1.0.0 none.
PkgA == RegistryRecord("a", "1.0.0")
PkgB == RegistryRecord("b", "1.0.0")
PkgE == RegistryRecord("e", "1.0.0")
PkgLib == RepoRecord("lib", RepoInfo("o/lib", "v0.3.0", Sha), Some("0.3.0"))
PkgLoc == LocalRecord("loc", "/w/v", Some("0.1.0"))

\* The lockfiles considered, each in the order update_mops_lock writes.
FetchLocks ==
  {<<PkgA, PkgB>>, <<PkgA, PkgLib, PkgLoc>>, <<PkgB, PkgE, PkgLib>>,
   <<PkgB, PkgLib, PkgLoc>>}

\* service.get_file_ids(lib, version): the file ids the registry returns.
get_file_ids(lib, version) ==
  IF <<lib, version>> = <<"a", "1.0.0">> THEN <<"a1", "a2">>
  ELSE IF <<lib, version>> = <<"b", "1.0.0">> THEN <<"b1">>
  ELSE <<>>

\* storage.get_file_meta(id): the path and the chunk count of a file.
get_file_meta(id) ==
  IF id = "a1" THEN [path |-> "src/lib.mo", chunk_count |-> 2]
  ELSE IF id = "a2" THEN [path |-> "mops.toml", chunk_count |-> 1]
  ELSE [path |-> "src/b.mo", chunk_count |-> 0]

\* storage.download_chunk(id, i): the bytes of chunk i of the file id.
download_chunk(id, i) == id \o "#" \o ToString(i)

\* The whole content of the file id: its chunks in index order.
Blob(id) == [i \in 1..get_file_meta(id).chunk_count |-> download_chunk(id, i - 1)]

\* What a failed fs::write may leave behind.
Truncated == <<"...">>

\* One network call of a run, on behalf of the package at the cache path pkg.
Call(pkg, call, arg) == [pkg |-> pkg, call |-> call, arg |-> arg]

\* The result of resuming a future: whether it goes on, its new state, the
\* cache, the paths written and the calls issued.
Resumed(ok, state, d, w, calls) ==
  [ok |-> ok, state |-> state, disk |-> d, wrote |-> w, calls |-> calls]

\* A download_file future at its first await, on get_file_meta.
FileFuture == [pc |-> "meta", i |-> 0, blob |-> <<>>]

\* download_file(base_path, id, storage), resumed with the answer to the call
\* it awaits: which call or filesystem operation fails, if any, is outcome.
download_file(f, id, base_path, d, outcome) ==
  LET meta == get_file_meta(id)
      blob == IF f.pc = "meta" THEN <<>> ELSE f.blob \o <<download_chunk(id, f.i)>>
      i    == IF f.pc = "meta" THEN 0 ELSE f.i + 1
      path == join(base_path, meta.path)
  IN  IF outcome = "net" THEN Resumed(FALSE, f, d, {}, {})
      ELSE IF i < meta.chunk_count
      THEN Resumed(TRUE, [pc |-> "chunk", i |-> i, blob |-> blob], d, {},
                   {Call(base_path, "download_chunk", download_chunk(id, i))})
      ELSE IF outcome = "io_dir" THEN Resumed(FALSE, f, d, {}, {})
      ELSE IF outcome = "io_file"
      THEN Resumed(FALSE, f, insert(d, path, Truncated), {path}, {})
      ELSE Resumed(TRUE, [pc |-> "written", i |-> i, blob |-> blob],
                   insert(d, path, blob), {path}, {})

\* A variant of joined: the join is over as soon as one file is written.
joined_any(files) == \E id \in DOMAIN files : files[id].pc = "written"

\* try_join_all(futures).await? is over: every download_file returned Ok.
joined(files) == \A id \in DOMAIN files : files[id].pc = "written"

\* download_mops_package, resumed after its file futures made the progress
\* files on the cache d with the writes w and the calls calls.
download_mops_package(task, files, d, w, calls, outcome) ==
  IF ~joined(files)
  THEN Resumed(TRUE, [task EXCEPT !.pc = "files", !.files = files], d, w, calls)
  ELSE IF outcome = "io_done" \/ ~exists(d, task.path)
  THEN Resumed(FALSE, [task EXCEPT !.pc = "files", !.files = files], d, w, calls)
  ELSE Resumed(TRUE, [task EXCEPT !.pc = "ok", !.files = files],
               insert(d, join(task.path, "DONE"), <<>>),
               w \cup {join(task.path, "DONE")}, calls)

\* download_github_package(path, repo, bar), resumed with the answer of the
\* host: the tree of the pinned commit and then the marker are written.
download_github_package(task, d, outcome) ==
  LET file == join(join(task.path, task.repo.base_dir), "lib.mo")
      done == join(task.path, repo_get_done_file(task.repo))
  IN  IF outcome = "net" THEN Resumed(FALSE, task, d, {}, {})
      ELSE IF outcome = "io_file"
      THEN Resumed(FALSE, task, insert(d, file, Truncated), {file}, {})
      ELSE Resumed(TRUE, [task EXCEPT !.pc = "ok"],
                   insert(insert(d, file, <<task.repo.commit>>), done, <<>>),
                   {file, done}, {})

\* A variant of needs_fetch: the sentinel is not looked at.
needs_fetch_always(d, pkg) == TRUE

\* if path.join(pkg.get_done_file()).exists() { continue; } does not skip pkg.
needs_fetch(d, pkg) ==
  ~exists(d, join(join(Root, get_path(pkg)), get_done_file(pkg)))

\* The future pushed for a registry package.
MopsTask(pkg) ==
  [name |-> pkg.name, version |-> pkg.version[1], path |-> join(Root, get_path(pkg)),
   pc |-> "ids", files |-> EmptyMap]

\* The future pushed for a repo package.
GitTask(pkg) ==
  [name |-> pkg.name, repo |-> pkg.repo[1], path |-> join(Root, get_path(pkg)),
   pc |-> "fetch"]

\* The records of pkgs of one kind that are not skipped, in lockfile order.
pushed(d, pkgs, kind) ==
  SelectSeq(pkgs, LAMBDA p : needs_fetch(d, p) /\ get_type(p).kind = kind)

\* The calls a cohort issues when try_join_all first polls it.
first_calls(futures, call) ==
  {Call(futures[t].path, call, futures[t].name) : t \in DOMAIN futures}

\* A variant of awaiting: the repo cohort is joined before the registry
\* cohort.
awaiting_git_first(mf, gf) ==
  IF \E t \in DOMAIN gf : gf[t].pc # "ok" THEN "git"
  ELSE IF \E t \in DOMAIN mf : mf[t].pc # "ok" THEN "mops"
  ELSE "done"

\* Where download_packages_from_lock stands when the registry cohort is mf
\* and the repo cohort gf.
awaiting(mf, gf) ==
  IF \E t \in DOMAIN mf : mf[t].pc # "ok" THEN "mops"
  ELSE IF \E t \in DOMAIN gf : gf[t].pc # "ok" THEN "git"
  ELSE "done"

\* The most runs of download_packages_from_lock in one behaviour.
MaxFetchRuns == 3

\* A project with an empty cache and a lockfile, or none, or a corrupt one.
FetchInit ==
  /\ mops_lock \in {Some(l) : l \in FetchLocks} \cup {None, Corrupt}
  /\ registry = EmptyMap
  /\ mops_toml = Toml(None, <<>>)
  /\ pc = "idle"
  /\ queue = <<>>
  /\ map = EmptyMap
  /\ err = ""
  /\ conflict = <<>>
  /\ runs = 0
  /\ lock0 = None
  /\ last = None
  /\ written = {}
  /\ steps = 0
  /\ failed = {}
  /\ ResolveIdle
  /\ UrlIdle
  /\ FetchIdle

\* download_packages_from_lock up to its first await: the lockfile is read,
\* the futures of the packages without sentinel are pushed and the registry
\* cohort is polled.
FetchStart ==
  /\ fetch_pc \in {"idle", "done", "error", "deleted"}
  /\ fetch_runs < MaxFetchRuns
  /\ fetch_runs' = fetch_runs + 1
  /\ after' = fetch_pc
  /\ disk0' = disk
  /\ wrote' = {}
  /\ IF ~parse_mops_lock(mops_lock).ok
     THEN /\ mop_futures' = <<>>
          /\ git_futures' = <<>>
          /\ dispatched' = {}
          /\ net' = {}
          /\ fetch_pc' = "error"
     ELSE \E mf \in {[t \in DOMAIN pushed(disk, mops_lock[1], "Mops") |->
                        MopsTask(pushed(disk, mops_lock[1], "Mops")[t])]},
             gf \in {[t \in DOMAIN pushed(disk, mops_lock[1], "Repo") |->
                        GitTask(pushed(disk, mops_lock[1], "Repo")[t])]} :
          /\ mop_futures' = mf
          /\ git_futures' = gf
          /\ dispatched' = {mf[t].name : t \in DOMAIN mf}
                             \cup {gf[t].name : t \in DOMAIN gf}
          /\ net' = IF mf # <<>> THEN first_calls(mf, "get_file_ids")
                    ELSE first_calls(gf, "fetch")
          /\ fetch_pc' = awaiting(mf, gf)
  /\ UNCHANGED <<disk, walk_vars, rv_vars, url_vars>>

\* The registry cohort after its future t was resumed with result r; when
\* the cohort is done the repo cohort is polled.
MopsResumed(t, r) ==
  /\ mop_futures' = [mop_futures EXCEPT ![t] = r.state]
  /\ disk' = r.disk
  /\ wrote' = wrote \cup r.wrote
  /\ \E at \in {IF r.ok THEN awaiting([mop_futures EXCEPT ![t] = r.state],
                                      git_futures)
                ELSE "error"} :
       /\ fetch_pc' = at
       /\ net' = net \cup r.calls
                   \cup (IF at = "git" THEN first_calls(git_futures, "fetch") ELSE {})
  /\ UNCHANGED <<git_futures, fetch_runs, disk0, after, dispatched, walk_vars,
                 rv_vars, url_vars>>

\* get_file_ids returns to a download_mops_package future: its download_file
\* futures are made and polled.
GetFileIds ==
  /\ fetch_pc = "mops"
  /\ \E t \in DOMAIN mop_futures, outcome \in {"ok", "net", "io_done"} :
       /\ mop_futures[t].pc = "ids"
       /\ \E ids \in {get_file_ids(mop_futures[t].name, mop_futures[t].version)} :
            \E r \in {IF outcome = "net"
                      THEN Resumed(FALSE, mop_futures[t], disk, {}, {})
                      ELSE download_mops_package(mop_futures[t],
                             [id \in Range(ids) |-> FileFuture], disk, {},
                             {Call(mop_futures[t].path, "get_file_meta", id) :
                                id \in Range(ids)}, outcome)} :
              MopsResumed(t, r)

\* The download_file future of the file id of the task t is resumed.
FileResumed(t, id, outcome) ==
  \E f \in {download_file(mop_futures[t].files[id], id, mop_futures[t].path,
                          disk, outcome)} :
    \E r \in {IF ~f.ok
              THEN Resumed(FALSE, mop_futures[t], f.disk, f.wrote, f.calls)
              ELSE download_mops_package(mop_futures[t],
                     [mop_futures[t].files EXCEPT ![id] = f.state],
                     f.disk, f.wrote, f.calls, outcome)} :
      MopsResumed(t, r)

\* get_file_meta returns to a download_file future.
GetFileMeta ==
  /\ fetch_pc = "mops"
  /\ \E t \in DOMAIN mop_futures :
       /\ mop_futures[t].pc = "files"
       /\ \E id \in DOMAIN mop_futures[t].files :
            /\ mop_futures[t].files[id].pc = "meta"
            /\ \E outcome \in {"ok", "net", "io_dir", "io_file", "io_done"} :
                 FileResumed(t, id, outcome)

\* download_chunk returns to a download_file future.
DownloadChunk ==
  /\ fetch_pc = "mops"
  /\ \E t \in DOMAIN mop_futures :
       /\ mop_futures[t].pc = "files"
       /\ \E id \in DOMAIN mop_futures[t].files :
            /\ mop_futures[t].files[id].pc = "chunk"
            /\ \E outcome \in {"ok", "net", "io_dir", "io_file", "io_done"} :
                 FileResumed(t, id, outcome)

\* The host answers a download_github_package future.
GitFetch ==
  /\ fetch_pc = "git"
  /\ \E t \in DOMAIN git_futures, outcome \in {"ok", "net", "io_file"} :
       /\ git_futures[t].pc = "fetch"
       /\ \E r \in {download_github_package(git_futures[t], disk, outcome)} :
            /\ git_futures' = [git_futures EXCEPT ![t] = r.state]
            /\ disk' = r.disk
            /\ wrote' = wrote \cup r.wrote
            /\ fetch_pc' = IF r.ok
                           THEN awaiting(mop_futures,
                                         [git_futures EXCEPT ![t] = r.state])
                           ELSE "error"
  /\ UNCHANGED <<mop_futures, fetch_runs, disk0, after, dispatched, net,
                 walk_vars, rv_vars, url_vars>>

\* After a successful run the directory of one fetched package is removed
\* from the cache, sentinel included.
DeleteDir ==
  /\ fetch_pc = "done"
  /\ fetch_runs < MaxFetchRuns
  /\ \E p \in Range(lock_or_default(mops_lock)) :
       /\ get_type(p).kind # "Local"
       /\ files_under(disk, join(Root, get_path(p))) # {}
       /\ disk' = [f \in DOMAIN disk \ files_under(disk, join(Root, get_path(p)))
                     |-> disk[f]]
  /\ fetch_pc' = "deleted"
  /\ UNCHANGED <<mop_futures, git_futures, fetch_runs, disk0, after,
                 dispatched, net, wrote, walk_vars, rv_vars, url_vars>>

FetchNext ==
  FetchStart \/ GetFileIds \/ GetFileMeta \/ DownloadChunk \/ GitFetch
    \/ DeleteDir

SpecFetch == FetchInit /\ [][FetchNext]_vars

\* ------------------------------------------------------------------------
\* Properties of download_packages_from_lock

\* The cache directory of a lockfile record and its completion sentinel.
CacheDir(p) == join(Root, get_path(p))

Sentinel(p) == join(CacheDir(p), get_done_file(p))

Fetched == {p \in Range(lock_or_default(mops_lock)) : get_type(p).kind \in {"Mops", "Repo"}}

Running == fetch_pc \in {"mops", "git", "done", "error"}

\* C6: whatever the interleaving of the tasks and whichever call or write
\* fails, when the DONE sentinel of a registry package is in the cache every
\* file id get_file_ids returns for the package is there with all its chunks
\* in index order; a sentinel the run created belongs to a task that
\* returned Ok after writing each of its files, and a task that failed or was
\* dropped has written no sentinel.
SentinelAfterFiles ==
  /\ \A p \in Fetched : (get_type(p).kind = "Mops" /\ Sentinel(p) \in DOMAIN disk) =>
       /\ \A id \in Range(get_file_ids(p.name, p.version[1])) :
            /\ join(CacheDir(p), get_file_meta(id).path) \in DOMAIN disk
            /\ disk[join(CacheDir(p), get_file_meta(id).path)] = Blob(id)
       /\ (Running /\ Sentinel(p) \notin DOMAIN disk0) =>
            \E t \in DOMAIN mop_futures :
              /\ mop_futures[t].name = p.name
              /\ mop_futures[t].pc = "ok"
              /\ \A id \in Range(get_file_ids(p.name, p.version[1])) :
                   join(CacheDir(p), get_file_meta(id).path) \in wrote
  /\ \A t \in DOMAIN mop_futures :
       mop_futures[t].pc # "ok" => join(mop_futures[t].path, "DONE") \notin wrote

\* A run has failed after the task of b@1.0.0 returned: b has its sentinel,
\* the task of a@1.0.0 was dropped with one of its two files written.
SentinelAfterFilesWitness ==
  /\ fetch_pc = "error"
  /\ Sentinel(PkgB) \in DOMAIN disk
  /\ Sentinel(PkgA) \notin DOMAIN disk
  /\ join(CacheDir(PkgA), "mops.toml") \in DOMAIN disk
  /\ \E t \in DOMAIN mop_futures :
       mop_futures[t].name = "a" /\ mop_futures[t].files["a1"].pc = "chunk"

\* C7: a run that starts right after a run that returned Ok, on the same
\* lockfile and cache, pushes no future, issues no call and writes nothing.
SecondRunIdle ==
  after = "done" =>
    /\ fetch_pc \in {"done", "deleted"}
    /\ mop_futures = <<>>
    /\ git_futures = <<>>
    /\ dispatched = {}
    /\ net = {}
    /\ wrote = {}

\* The second of two runs in a row has returned, on a lockfile with a
\* registry, a repo and a local record.
SecondRunIdleWitness ==
  /\ after = "done"
  /\ fetch_pc = "done"
  /\ fetch_runs = 2
  /\ {get_type(p).kind : p \in Range(lock_or_default(mops_lock))} = {"Mops", "Repo", "Local"}

\* The files of d outside the directories dirs.
Outside(d, dirs) ==
  {f \in DOMAIN d : \A dir \in dirs : ~starts_with(f, dir \o "/")}

\* C8: a run pushes a future for exactly the registry and repo records whose
\* sentinel was absent when it started; its calls and its writes are all for
\* those records, and every file outside their directories is as the run
\* found it; a run that returns Ok leaves every sentinel in place.
FetchesOnlyMissing ==
  Running =>
    LET absent == {p \in Fetched : Sentinel(p) \notin DOMAIN disk0}
        dirs   == {CacheDir(p) : p \in absent}
    IN  /\ dispatched = {p.name : p \in absent}
        /\ \A c \in net : c.pkg \in dirs
        /\ wrote \cap Outside(disk, dirs) = {}
        /\ Outside(disk, dirs) = Outside(disk0, dirs)
        /\ \A f \in Outside(disk, dirs) : disk[f] = disk0[f]
        /\ fetch_pc = "done" => \A p \in Fetched : Sentinel(p) \in DOMAIN disk

\* After one package directory was removed from a full cache, a run over a
\* registry, a repo and a local record has fetched one package and returned.
FetchesOnlyMissingWitness ==
  /\ after = "deleted"
  /\ fetch_pc = "done"
  /\ Cardinality(dispatched) = 1
  /\ wrote # {}
  /\ mops_lock = Some(<<PkgA, PkgLib, PkgLoc>>)

\* A repo task of the run has taken a step: its request was issued, it has
\* returned, or a path under its directory was written.
GitStarted ==
  \/ \E c \in net : c.call = "fetch"
  \/ \E t \in DOMAIN git_futures :
       \/ git_futures[t].pc # "fetch"
       \/ \E w \in wrote : starts_with(w, git_futures[t].path)

\* C20: in a run of download_packages_from_lock a repo task takes a step only
\* when every registry task the run pushed has returned Ok; so in a run that
\* fails in a registry task no repo task has started, and the steps of the
\* two cohorts never interleave.
RegistryBeforeRepo ==
  GitStarted => \A t \in DOMAIN mop_futures : mop_futures[t].pc = "ok"

\* A run with tasks of both kinds has ended: the repo task ran after the
\* registry tasks.
RegistryBeforeRepoWitness ==
  /\ fetch_pc = "done"
  /\ mop_futures # <<>>
  /\ git_futures # <<>>
  /\ GitStarted

====
